---------------------------- MODULE Spec2Model ----------------------------
(***************************************************************************)
(* A model of the OSS storage adapter of rocks-strata                      *)
(* (strata/ossstorage/storage.go and the second copy of the same package   *)
(* in strata/cmd/mongo/lreplica_drivers/mongoq/main.go).                   *)
(*                                                                         *)
(* Go strings and byte slices are sequences of byte values (0..255), so    *)
(* that len, slicing and the provider's byte-wise key order are what they  *)
(* are in the program.                                                     *)
(***************************************************************************)
EXTENDS Integers, Sequences, FiniteSets, TLC

VARIABLES
    handle,     \* the *OSSStorage the callers share: [bucket, region, prefix]
    sdk,        \* which copy of the package is built: "GetResponse" | "Head"
    bucket,     \* provider side: does the bucket exist
    store,      \* provider side: the bucket's objects, ordered by key
    written,    \* the keys ever put in the bucket (a record of the past)
    ctor,       \* one NewOSSStorage call per constructing instance
    call,       \* per caller: the operation in progress, its locals, its result
    codec       \* PathCodec inputs and outputs (specification SpecCodec)

vars == <<handle, sdk, bucket, store, written, ctor, call, codec>>

---------------------------------------------------------------------------
(* Bounds of the model.                                                    *)

\* constructing instances racing for one bucket
NumInstances == 2

\* pages of MaxKeys keys the bulk bucket of SpecList can fill (plus one key)
MaxPages == 2

\* longest logical path (in bytes) drawn for the PathCodec
MaxPathLen == 2

---------------------------------------------------------------------------
(* Bytes and strings.                                                      *)

Min(a, b) == IF a < b THEN a ELSE b

\* "/" , the separator addPrefix inserts
Slash == 47

\* "\"" , the quote Get trims from the Etag
Quote == 34

\* the provider's per-request ceiling List never exceeds
MaxKeys == 1000

HasPrefix(s, p) == Len(p) <= Len(s) /\ SubSeq(s, 1, Len(p)) = p

\* s[n:] of Go (0-based n); slicing beyond len(s) panics and is not used here
SliceFrom(s, n) == SubSeq(s, n + 1, Len(s))

\* byte-wise lexicographic order, the order the provider lists keys in
RECURSIVE LessFrom(_, _, _)
LessFrom(s, t, i) ==
    IF i > Len(t) THEN FALSE
    ELSE IF i > Len(s) THEN TRUE
    ELSE IF s[i] = t[i] THEN LessFrom(s, t, i + 1)
    ELSE s[i] < t[i]

Less(s, t) == LessFrom(s, t, 1)

---------------------------------------------------------------------------
(* PathCodec.                                                              *)

addPrefix(prefix, path) == prefix \o <<Slash>> \o path

\* (a slip: the separator is left on the path)
removePrefixShort(prefix, path) == SliceFrom(path, Len(prefix))

removePrefix(prefix, path) == SliceFrom(path, Len(prefix) + 1)

---------------------------------------------------------------------------
(* Content digest and its header encoding (encoding/hex of the Go library; *)
(* the digest itself is computed by the provider and by the checksumming   *)
(* reader).                                                                *)

\* the payloads callers put: the empty one and two of one byte
Payloads == {<<>>, <<0>>, <<1>>}

RECURSIVE Weigh(_)
Weigh(data) == IF data = <<>> THEN 0 ELSE Head(data) + 2 * Weigh(Tail(data))

\* The content digest (MD5 in the program), as the collision-free function
\* it stands for: distinct payloads of the model have distinct digests.
Digest(data) == <<Len(data), Weigh(data)>>

HexDigits == <<48, 49, 50, 51, 52, 53, 54, 55, 56, 57, 97, 98, 99, 100, 101, 102>>

\* hex.EncodeToString
RECURSIVE HexEncode(_)
HexEncode(bytes) ==
    IF bytes = <<>> THEN <<>>
    ELSE <<HexDigits[(Head(bytes) \div 16) + 1], HexDigits[(Head(bytes) % 16) + 1]>>
         \o HexEncode(Tail(bytes))

\* fromHexChar: 0-9, a-f, A-F; -1 for any other byte
FromHexChar(c) ==
    IF c >= 48 /\ c <= 57 THEN c - 48
    ELSE IF c >= 97 /\ c <= 102 THEN c - 97 + 10
    ELSE IF c >= 65 /\ c <= 70 THEN c - 65 + 10
    ELSE -1

HexOk(s) == Len(s) % 2 = 0 /\ \A i \in 1..Len(s) : FromHexChar(s[i]) >= 0

\* hex.DecodeString, on a string HexOk accepts
HexDecode(s) ==
    [i \in 1..(Len(s) \div 2) |-> 16 * FromHexChar(s[2 * i - 1]) + FromHexChar(s[2 * i])]

\* strings.TrimPrefix(s, "\"") and strings.TrimSuffix(s, "\"")
TrimPrefix(s) == IF Len(s) >= 1 /\ s[1] = Quote THEN Tail(s) ELSE s

TrimSuffix(s) == IF Len(s) >= 1 /\ s[Len(s)] = Quote THEN SubSeq(s, 1, Len(s) - 1) ELSE s

---------------------------------------------------------------------------
(* Errors.  An error is [type, msg, path]; NoErr is Go's nil error.        *)

NoErr == [type |-> "nil", msg |-> "", path |-> <<>>]

NoSuchKeyMsg == "The specified key does not exist."

\* the provider's answer to a read of a key it does not hold
NoSuchKey == [type |-> "oss.Error", msg |-> NoSuchKeyMsg, path |-> <<>>]

\* any other failure of a provider request: access denied, network, ...
TransportErr == [type |-> "oss.Error", msg |-> "RequestTimeout", path |-> <<>>]

\* strata.ErrNotFound(path)
ErrNotFound(path) == [type |-> "strata.ErrNotFound", msg |-> "", path |-> path]

ErrorsNew(msg) == [type |-> "errors.New", msg |-> msg, path |-> <<>>]

HexErr == [type |-> "hex.InvalidByteError", msg |-> "", path |-> <<>>]

ChecksumMismatch == [type |-> "strata.ErrChecksumMismatch", msg |-> "", path |-> <<>>]

\* a run-time panic of the Go program (nil dereference, index out of range)
Panic(msg) == [type |-> "panic", msg |-> msg, path |-> <<>>]

---------------------------------------------------------------------------
(* The provider: one bucket, its objects kept in key order.                *)

Keys(objs) == {objs[i].Key : i \in 1..Len(objs)}

Holds(objs, key) == key \in Keys(objs)

Content(objs, key) == (CHOOSE i \in 1..Len(objs) : objs[i].Key = key)

\* PUT of an object: overwrites the key's object or inserts it in key order
ProviderPut(objs, key, data) ==
    LET obj == [Key |-> key, Data |-> data]
        before == SelectSeq(objs, LAMBDA o : Less(o.Key, key))
        after == SelectSeq(objs, LAMBDA o : Less(key, o.Key))
    IN  before \o <<obj>> \o after

\* DELETE of an object: removing a key the bucket does not hold succeeds
ProviderDel(objs, key) == SelectSeq(objs, LAMBDA o : o.Key # key)

\* The Etag header values of a read response, by what the provider sends:
\* the quoted hex digest (OSS), the bare hex digest (osstest), no header, a
\* header without values, or a value that is not hexadecimal.
EtagForms == {"quoted", "bare", "missing", "empty", "malformed"}

EtagHeader(data, form) ==
    CASE form = "quoted" -> <<<<Quote>> \o HexEncode(Digest(data)) \o <<Quote>>>>
      [] form = "bare" -> <<HexEncode(Digest(data))>>
      [] form = "malformed" -> <<<<Quote, 122, 122, Quote>>>>
      [] OTHER -> <<>>

NilResp == [isNil |-> TRUE, EtagFound |-> FALSE, Etag |-> <<>>, Body |-> <<>>]

\* The *http.Response of a read of `key`: GetResponse carries the object in
\* its body (as delivered: `wire` is what came over the network), Head is a
\* HEAD request, whose response has the headers and an empty body.
ReadResponse(objs, key, method, form, wire) ==
    [isNil |-> FALSE,
     EtagFound |-> form # "missing",
     Etag |-> EtagHeader(objs[Content(objs, key)].Data, form),
     Body |-> IF method = "Head" THEN <<>> ELSE wire]

\* the keys of one listing request: those under `prefix` after `marker`
Candidates(objs, prefix, marker) ==
    SelectSeq(objs, LAMBDA o : HasPrefix(o.Key, prefix) /\ Less(marker, o.Key))

\* what a page holds when the provider fills it
FullPage(cand, max) == Min(Min(max, MaxKeys), Len(cand))

\* A listing page of k entries: the truncation flag is set when keys remain.
ListResp(cand, k) ==
    [Contents |-> [i \in 1..k |-> cand[i].Key], IsTruncated |-> k < Len(cand)]

---------------------------------------------------------------------------
(* Inputs of the callers.                                                  *)

\* the logical prefixes an adapter is configured with: "" and "p"
Prefixes == {<<>>, <<112>>}

\* "snapshots/db1/" and "snapshots/db1/000001.sst"
ExampleDir == <<115, 110, 97, 112, 115, 104, 111, 116, 115, 47, 100, 98, 49, 47>>

ExampleFile == <<48, 48, 48, 48, 48, 49, 46, 115, 115, 116>>

ExamplePath == ExampleDir \o ExampleFile

\* the logical paths callers use: "a" and the example
Paths == {<<97>>, ExamplePath}

\* the prefixes callers list: "" and the example's directory
ListPrefixes == {<<>>, ExampleDir}

\* the maxSize arguments of List in Spec
ListSizes == {0, 1, 10}

Callers == {"c1"}

Methods == {"GetResponse", "Head"}

---------------------------------------------------------------------------
(* The state of one caller.                                                *)

\* an io.ReadCloser: nil, the response body as it is, or the body wrapped in
\* a checksumming reader (verify) with the digest it expects
NilStream == [isNil |-> TRUE, Body |-> <<>>, verify |-> FALSE, checksum |-> <<>>]

\* pc: "ready" (no operation in progress; the last one's result is in ret*),
\*     "list" (inside the loop of List), "stream" (holding Get's reader).
\* held, stored, resp, perr, form, wire, reqs, full, quiet, sent record what
\* happened, for the properties; the program does not read them (sent: the
\* provider requests the operation issued, in order; reqs: the page requests
\* of a List call, each with its answer).
NoCall ==
    [pc |-> "ready", op |-> "none", path |-> <<>>, data |-> <<>>,
     n |-> 0, maxSize |-> 0, prefix |-> <<>>, marker |-> <<>>, items |-> <<>>,
     stream |-> NilStream, read |-> <<>>, drained |-> FALSE, err |-> NoErr,
     held |-> FALSE, stored |-> <<>>, resp |-> NilResp, perr |-> NoErr,
     form |-> "none", wire |-> <<>>,
     reqs |-> <<>>, full |-> TRUE, quiet |-> TRUE, sent |-> <<>>]

\* a Put or Delete by anyone: the bucket is no longer the one a List call
\* began on (quiet records that nobody wrote since the call began)
Disturb(cs) ==
    [c \in DOMAIN cs |-> IF cs[c].op = "List" THEN [cs[c] EXCEPT !.quiet = FALSE] ELSE cs[c]]

---------------------------------------------------------------------------
(* Get, Put, PutReader, Delete.                                            *)

\* strata.NewChecksummingReader(resp.Body, checksum)
NewChecksummingReader(body, checksum) ==
    [isNil |-> FALSE, Body |-> body, verify |-> TRUE, checksum |-> checksum]

\* ioutil.ReadAll of the reader: the bytes of the body and, from a
\* checksumming reader, at end-of-data the comparison of their digest with
\* the expected one
ReadAllStream(stream) ==
    [data |-> stream.Body,
     err |-> IF stream.verify /\ Digest(stream.Body) # stream.checksum
             THEN ChecksumMismatch ELSE NoErr]

\* the argument Get hands to hex.DecodeString
EtagHex(etag) == TrimSuffix(TrimPrefix(etag))

\* the path Get puts in its not-found error
NotFoundPath(prefix, path) == addPrefix(prefix, path)

\* (a slip: the provider's error code is compared instead of its message)
MapReadErrByCode(err, key) == IF err.msg = "NoSuchKey" THEN ErrNotFound(key) ELSE err

\* Get's mapping of the provider's error
MapReadErr(err, key) == IF err.msg = NoSuchKeyMsg THEN ErrNotFound(key) ELSE err

\* (a slip: the response body is returned as it is)
GetStreamUnchecked(resp) ==
    [isNil |-> FALSE, Body |-> resp.Body, verify |-> FALSE, checksum |-> <<>>]

\* the reader Get builds from a response whose Etag decodes
GetStream(resp) == NewChecksummingReader(resp.Body, HexDecode(EtagHex(resp.Etag[1])))

\* Get after the provider's answer (resp, err): the (io.ReadCloser, error) it returns
GetReturn(prefix, path, resp, err) ==
    IF resp.isNil \/ err # NoErr
    THEN IF err = NoErr
         THEN [stream |-> NilStream, err |-> Panic("nil pointer dereference")]
         ELSE [stream |-> NilStream, err |-> MapReadErr(err, NotFoundPath(prefix, path))]
    ELSE IF ~resp.EtagFound
         THEN [stream |-> NilStream, err |-> ErrorsNew("No Etag header")]
    ELSE IF Len(resp.Etag) = 0
         THEN [stream |-> NilStream, err |-> ErrorsNew("Etag header is empty")]
    ELSE IF ~HexOk(EtagHex(resp.Etag[1]))
         THEN [stream |-> NilStream, err |-> HexErr]
    ELSE [stream |-> GetStream(resp), err |-> NoErr]

\* what the provider may answer to the read of `key`
\* the request a read puts on the wire: GetResponse is a GET, Head a HEAD
ReadRequest(method) == IF method = "Head" THEN "HEAD" ELSE "GET"

ReadAnswers(objs, key, method) ==
    (IF Holds(objs, key)
     THEN {[resp |-> ReadResponse(objs, key, method, form, wire), err |-> NoErr,
            form |-> form, wire |-> wire] :
           form \in {"quoted", "bare"}, wire \in Payloads}
          \cup {[resp |-> ReadResponse(objs, key, method, form,
                                       objs[Content(objs, key)].Data),
                 err |-> NoErr, form |-> form,
                 wire |-> objs[Content(objs, key)].Data] :
                form \in EtagForms \ {"quoted", "bare"}}
     ELSE {[resp |-> NilResp, err |-> NoSuchKey, form |-> "none", wire |-> <<>>]})
    \cup {[resp |-> NilResp, err |-> e, form |-> "none", wire |-> <<>>] :
            e \in {TransportErr, NoErr}}

Get(c, path) ==
    /\ call[c].pc = "ready"
    /\ \E a \in ReadAnswers(store, addPrefix(handle.prefix, path), sdk) :
         LET key == addPrefix(handle.prefix, path)
             r == GetReturn(handle.prefix, path, a.resp, a.err)
         IN  call' = [call EXCEPT ![c] =
                 [NoCall EXCEPT !.op = "Get", !.path = path,
                     !.pc = IF r.stream.isNil THEN "ready" ELSE "stream",
                     !.stream = r.stream, !.err = r.err,
                     !.held = Holds(store, key),
                     !.stored = IF Holds(store, key)
                                THEN store[Content(store, key)].Data ELSE <<>>,
                     !.resp = a.resp, !.perr = a.err,
                     !.form = a.form, !.wire = a.wire,
                     !.sent = <<ReadRequest(sdk)>>]]
    /\ UNCHANGED <<handle, sdk, bucket, store, written, ctor, codec>>

\* the caller reads the stream Get returned to its end
ReadAll(c) ==
    /\ call[c].pc = "stream"
    /\ LET r == ReadAllStream(call[c].stream)
       IN  call' = [call EXCEPT ![c].pc = "ready", ![c].read = r.data,
                                ![c].drained = TRUE, ![c].err = r.err]
    /\ UNCHANGED <<handle, sdk, bucket, store, written, ctor, codec>>

\* the caller closes the stream without reading it to its end
Close(c) ==
    /\ call[c].pc = "stream"
    /\ call' = [call EXCEPT ![c].pc = "ready"]
    /\ UNCHANGED <<handle, sdk, bucket, store, written, ctor, codec>>

Put(c, path, data) ==
    /\ call[c].pc = "ready"
    /\ \E perr \in {NoErr, TransportErr} :
         /\ store' = IF perr = NoErr
                     THEN ProviderPut(store, addPrefix(handle.prefix, path), data)
                     ELSE store
         /\ written' = IF perr = NoErr
                       THEN written \cup {addPrefix(handle.prefix, path)}
                       ELSE written
         /\ call' = [IF perr = NoErr THEN Disturb(call) ELSE call EXCEPT ![c] =
                [NoCall EXCEPT !.op = "Put", !.path = path, !.data = data,
                               !.err = perr, !.perr = perr, !.sent = <<"PUT">>]]
    /\ UNCHANGED <<handle, sdk, bucket, ctor, codec>>

\* PutReader: ioutil.ReadAll(reader), whose error is returned, then Put
PutReader(c, path, data) ==
    /\ call[c].pc = "ready"
    /\ \E rerr \in {NoErr, ErrorsNew("unexpected EOF")}, perr \in {NoErr, TransportErr} :
         LET ok == rerr = NoErr /\ perr = NoErr
         IN  /\ rerr # NoErr => perr = NoErr
             /\ store' = IF ok
                         THEN ProviderPut(store, addPrefix(handle.prefix, path), data)
                         ELSE store
             /\ written' = IF ok
                           THEN written \cup {addPrefix(handle.prefix, path)}
                           ELSE written
             /\ call' = [IF ok THEN Disturb(call) ELSE call EXCEPT ![c] =
                    [NoCall EXCEPT !.op = "PutReader", !.path = path, !.data = data,
                                   !.err = IF rerr # NoErr THEN rerr ELSE perr,
                                   !.perr = perr,
                                   !.sent = IF rerr # NoErr THEN <<>> ELSE <<"PUT">>]]
    /\ UNCHANGED <<handle, sdk, bucket, ctor, codec>>

Delete(c, path) ==
    /\ call[c].pc = "ready"
    /\ \E perr \in {NoErr, TransportErr} :
         /\ store' = IF perr = NoErr
                     THEN ProviderDel(store, addPrefix(handle.prefix, path))
                     ELSE store
         /\ call' = [IF perr = NoErr THEN Disturb(call) ELSE call EXCEPT ![c] =
                [NoCall EXCEPT !.op = "Delete", !.path = path,
                               !.err = perr, !.perr = perr, !.sent = <<"DELETE">>]]
    /\ UNCHANGED <<handle, sdk, bucket, written, ctor, codec>>

\* Another process (another instance of the distributed job, with its own
\* adapter on the same bucket and prefix) puts or deletes an object.
OtherPut(path, data) ==
    /\ store' = ProviderPut(store, addPrefix(handle.prefix, path), data)
    /\ written' = written \cup {addPrefix(handle.prefix, path)}
    /\ call' = Disturb(call)
    /\ UNCHANGED <<handle, sdk, bucket, ctor, codec>>

OtherDelete(path) ==
    /\ store' = ProviderDel(store, addPrefix(handle.prefix, path))
    /\ call' = Disturb(call)
    /\ UNCHANGED <<handle, sdk, bucket, written, ctor, codec>>

\* (a slip: Lock fails on a path that another caller has locked)
LockExclusive(c, path) ==
    /\ call[c].pc = "ready"
    /\ call' = [call EXCEPT ![c] =
           [NoCall EXCEPT !.op = "Lock", !.path = path,
               !.err = IF \E d \in DOMAIN call \ {c} :
                              call[d].op = "Lock" /\ call[d].path = path
                       THEN ErrorsNew("locked") ELSE NoErr]]
    /\ UNCHANGED <<handle, sdk, bucket, store, written, ctor, codec>>

\* Lock and Unlock are not implemented: they return nil
Lock(c, path) ==
    /\ call[c].pc = "ready"
    /\ call' = [call EXCEPT ![c] = [NoCall EXCEPT !.op = "Lock", !.path = path]]
    /\ UNCHANGED <<handle, sdk, bucket, store, written, ctor, codec>>

Unlock(c, path) ==
    /\ call[c].pc = "ready"
    /\ call' = [call EXCEPT ![c] = [NoCall EXCEPT !.op = "Unlock", !.path = path]]
    /\ UNCHANGED <<handle, sdk, bucket, store, written, ctor, codec>>

---------------------------------------------------------------------------
(* List.                                                                   *)

\* (a slip: the whole budget is asked for)
MaxReqSizeUncapped(maxSize) == maxSize

\* maxReqSize: 1000, or maxSize when that is smaller
MaxReqSize(maxSize) == IF maxSize < MaxKeys THEN maxSize ELSE MaxKeys

\* (a slip: the budget is not decremented)
RemainingAll(maxSize, maxReqSize) == maxSize

\* what remains of the budget after a request of maxReqSize keys
Remaining(maxSize, maxReqSize) == maxSize - maxReqSize

\* (a slip: the marker is the logical path, not the provider key)
NextMarkerUnprefixed(prefix, items) == items[Len(items)]

\* (a slip: the marker is taken from the first item, not the last)
NextMarkerFirst(prefix, items) == addPrefix(prefix, items[1])

\* the marker of the request after a truncated page
NextMarker(prefix, items) == addPrefix(prefix, items[Len(items)])

\* (a slip: the provider keys are appended as they are)
AppendKeys(prefix, items, contents) == items \o contents

\* the items of a page, appended in the order the provider returned them
AppendItems(prefix, items, contents) ==
    items \o [i \in 1..Len(contents) |-> removePrefix(prefix, contents[i])]

\* the sizes of the pages the provider may answer with: the full page, or a
\* shorter one (the truncation flag then says that keys remain)
PageSizes(cand, max) == {FullPage(cand, max)} \cup {k \in {0, 1} : k < FullPage(cand, max)}

\* the truncation flag of a page of k entries: set when keys remain, or set
\* by a provider that reports truncation whatever remains
TruncFlags(cand, k) == {k < Len(cand), TRUE}

NoSuchBucket ==
    [type |-> "oss.Error", msg |-> "The specified bucket does not exist.", path |-> <<>>]

\* the errors of a listing request
ListErrors == {TransportErr, NoSuchBucket}

\* (a slip: the items of the earlier pages are returned with the error)
ListFailPartial(items, err) == [items |-> items, err |-> err]

\* if err != nil { return nil, err }
ListFail(items, err) == [items |-> <<>>, err |-> err]

\* (a slip: the marker is kept in one place for all the calls in progress)
SharedLocals(cs, c) ==
    LET others == {d \in DOMAIN cs \ {c} : cs[d].pc = "list"}
    IN  IF others = {} THEN cs[c]
        ELSE [cs[c] EXCEPT !.marker = cs[CHOOSE d \in others : TRUE].marker]

\* prefix, marker, maxSize and items are local variables of the call
Locals(cs, c) == cs[c]

\* prefix = s.addPrefix(prefix); marker := ""; items := make([]string, 0, 1000)
ListCall(c, lprefix, n) ==
    /\ call[c].pc = "ready"
    /\ call' = [call EXCEPT ![c] =
           [NoCall EXCEPT !.op = "List", !.pc = "list", !.path = lprefix, !.n = n,
                          !.maxSize = n, !.prefix = addPrefix(handle.prefix, lprefix)]]
    /\ UNCHANGED <<handle, sdk, bucket, store, written, ctor, codec>>

\* one iteration of the loop: a page request, its answer, the bookkeeping
ListPage(c) ==
    /\ call[c].pc = "list"
    /\ call[c].maxSize > 0
    /\ LET me == Locals(call, c)
           maxReqSize == MaxReqSize(me.maxSize)
           cand == Candidates(store, me.prefix, me.marker)
           req == [marker |-> me.marker, max |-> maxReqSize, budget |-> me.maxSize,
                   keys |-> <<>>, trunc |-> FALSE, err |-> NoErr]
       IN  \/ \* the request fails: return nil, err
              \E e \in ListErrors :
                LET r == ListFail(me.items, e)
                IN  call' = [call EXCEPT ![c] =
                        [me EXCEPT !.pc = "ready", !.items = r.items, !.err = r.err,
                                   !.perr = e,
                                   !.reqs = Append(me.reqs, [req EXCEPT !.err = e]),
                                   !.sent = Append(me.sent, "LIST")]]
           \/ \E k \in PageSizes(cand, maxReqSize) :
              \E t \in TruncFlags(cand, k) :
                LET contents == [ListResp(cand, k) EXCEPT !.IsTruncated = t]
                    items == AppendItems(handle.prefix, me.items, contents.Contents)
                    seen == [me EXCEPT !.maxSize = Remaining(me.maxSize, maxReqSize),
                                       !.items = items,
                                       !.reqs = Append(me.reqs,
                                           [req EXCEPT !.keys = contents.Contents,
                                                       !.trunc = contents.IsTruncated]),
                                       !.sent = Append(me.sent, "LIST"),
                                       !.full = /\ me.full
                                                /\ k = FullPage(cand, maxReqSize)
                                                /\ t = (k < Len(cand))]
                IN  call' = [call EXCEPT ![c] =
                        IF contents.IsTruncated
                        THEN IF items = <<>>
                             THEN [seen EXCEPT !.pc = "ready",
                                               !.err = Panic("index out of range")]
                             ELSE [seen EXCEPT !.marker = NextMarker(handle.prefix, items)]
                        ELSE [seen EXCEPT !.pc = "ready"]]
    /\ UNCHANGED <<handle, sdk, bucket, store, written, ctor, codec>>

\* the budget is used up: return items, nil
ListReturn(c) ==
    /\ call[c].pc = "list"
    /\ call[c].maxSize <= 0
    /\ call' = [call EXCEPT ![c].pc = "ready"]
    /\ UNCHANGED <<handle, sdk, bucket, store, written, ctor, codec>>

---------------------------------------------------------------------------
(* NewOSSStorage.                                                          *)

Instances == 1..NumInstances

NilHandle == [isNil |-> TRUE, bucket |-> "", region |-> "", prefix |-> <<>>]

NewHandle(prefix) ==
    [isNil |-> FALSE, bucket |-> "backups", region |-> "oss-cn-hangzhou", prefix |-> prefix]

\* pc: "start", "create" (the probe failed), "creating" (PutBucket in flight),
\*     "ready" (the handle is returned), "failed" (nil, err is returned).
\* probe, existed, puts, atPut, busy, probes, probeMax, perr, created record
\* what happened, for the properties (perr: the probe's error; created: the
\* answer to PutBucket).
NoCtor ==
    [pc |-> "start", prefix |-> <<>>, handle |-> NilHandle, err |-> NoErr,
     probe |-> "none", existed |-> FALSE, puts |-> 0, atPut |-> FALSE, busy |-> FALSE,
     probes |-> 0, probeMax |-> 0, perr |-> NoErr, created |-> "none"]

\* the max-keys of the probe, bucket.List("", "/", "", 1)
ProbeMaxKeys == 1

\* what the provider may answer to bucket.List("", "/", "", 1)
ProbeAnswers(exists) ==
    IF exists THEN {NoErr, TransportErr}
    ELSE {[type |-> "oss.Error", msg |-> "The specified bucket does not exist.",
           path |-> <<>>],
          TransportErr}

\* (a slip: the bucket is created whatever the probe said)
NeedsCreateAlways(err) == TRUE

\* if err != nil { err = bucket.PutBucket(bucketACL) ... }
NeedsCreate(err) == err # NoErr

\* (a slip: the error of the creation is dropped)
PutBucketIgnored(err) == "ready"

\* (a slip: a failed creation is tried again)
PutBucketRetry(err) == IF err # NoErr THEN "create" ELSE "ready"

\* err = bucket.PutBucket(bucketACL); if err != nil { return nil, err }
PutBucketReturn(err) == IF err # NoErr THEN "failed" ELSE "ready"

\* the probe and the branch on its error
NewProbe(i, prefix) ==
    /\ ctor[i].pc = "start"
    /\ \E perr \in ProbeAnswers(bucket) :
         ctor' = [ctor EXCEPT ![i] =
             [@ EXCEPT !.prefix = prefix,
                       !.probe = IF perr = NoErr THEN "ok" ELSE "err",
                       !.existed = bucket,
                       !.probes = @ + 1, !.probeMax = ProbeMaxKeys, !.perr = perr,
                       !.pc = IF NeedsCreate(perr) THEN "create" ELSE "ready",
                       !.handle = IF NeedsCreate(perr) THEN NilHandle
                                  ELSE NewHandle(prefix)]]
    /\ UNCHANGED <<handle, sdk, bucket, store, written, call, codec>>

\* bucket.PutBucket(bucketACL) is sent
NewPutBucket(i) ==
    /\ ctor[i].pc = "create"
    /\ ctor' = [ctor EXCEPT ![i] =
           [@ EXCEPT !.pc = "creating", !.puts = @ + 1, !.atPut = bucket,
                     !.busy = \E j \in Instances \ {i} : ctor[j].pc = "creating"]]
    /\ UNCHANGED <<handle, sdk, bucket, store, written, call, codec>>

\* PutBucket is answered: the bucket exists, or the error is returned
NewPutBucketDone(i) ==
    /\ ctor[i].pc = "creating"
    /\ \E perr \in {NoErr, TransportErr} :
         /\ bucket' = (bucket \/ perr = NoErr)
         /\ ctor' = [ctor EXCEPT ![i] =
                [@ EXCEPT !.pc = PutBucketReturn(perr),
                          !.err = perr,
                          !.created = IF perr = NoErr THEN "ok" ELSE "err",
                          !.handle = IF perr # NoErr THEN NilHandle
                                     ELSE NewHandle(ctor[i].prefix)]]
    /\ UNCHANGED <<handle, sdk, store, written, call, codec>>

---------------------------------------------------------------------------
(* PathCodec on its own: addPrefix, then removePrefix of its result.       *)

CodecBytes == {Slash, 97, 112}

CodecStrings(n) == UNION {[1..k -> CodecBytes] : k \in 0..n}

NoCodec == [pc |-> "off", prefix |-> <<>>, path |-> <<>>, key |-> <<>>, out |-> <<>>]

CodecAdd ==
    /\ codec.pc = "in"
    /\ codec' = [codec EXCEPT !.pc = "key", !.key = addPrefix(codec.prefix, codec.path)]
    /\ UNCHANGED <<handle, sdk, bucket, store, written, ctor, call>>

CodecRemove ==
    /\ codec.pc = "key"
    /\ codec' = [codec EXCEPT !.pc = "out", !.out = removePrefix(codec.prefix, codec.key)]
    /\ UNCHANGED <<handle, sdk, bucket, store, written, ctor, call>>

---------------------------------------------------------------------------
(* Specifications.                                                         *)

\* The adapter after construction, on an empty bucket, shared by the callers.
Init ==
    /\ handle \in {NewHandle(p) : p \in Prefixes}
    /\ sdk \in Methods
    /\ bucket = TRUE
    /\ store = <<>>
    /\ written = {}
    /\ ctor = [i \in Instances |-> NoCtor]
    /\ call = [c \in Callers |-> NoCall]
    /\ codec = NoCodec

Next ==
    \/ \E path \in Paths, data \in Payloads : OtherPut(path, data)
    \/ \E path \in Paths : OtherDelete(path)
    \/ \E c \in Callers :
        \/ \E path \in Paths : Get(c, path)
        \/ ReadAll(c)
        \/ Close(c)
        \/ \E path \in Paths, data \in Payloads : Put(c, path, data)
        \/ \E path \in Paths, data \in Payloads : PutReader(c, path, data)
        \/ \E path \in Paths : Delete(c, path)
        \/ \E lprefix \in ListPrefixes, n \in ListSizes : ListCall(c, lprefix, n)
        \/ ListPage(c)
        \/ ListReturn(c)
        \/ \E path \in Paths : Lock(c, path)
        \/ \E path \in Paths : Unlock(c, path)

Spec == Init /\ [][Next]_vars

\* Instances constructed concurrently against one bucket.
InitNew ==
    /\ handle = NilHandle
    /\ sdk = "GetResponse"
    /\ bucket \in BOOLEAN
    /\ store = <<>>
    /\ written = {}
    /\ ctor = [i \in Instances |-> NoCtor]
    /\ call = [c \in Callers |-> NoCall]
    /\ codec = NoCodec

NextNew ==
    \E i \in Instances :
        \/ \E prefix \in Prefixes : NewProbe(i, prefix)
        \/ NewPutBucket(i)
        \/ NewPutBucketDone(i)

SpecNew == InitNew /\ [][NextNew]_vars

\* List against a bucket of up to MaxPages * MaxKeys + 1 keys under "d/".
Pad4(i) == <<48 + (i \div 1000), 48 + ((i \div 100) % 10), 48 + ((i \div 10) % 10), 48 + (i % 10)>>

\* "d/"
BulkDir == <<100, Slash>>

BulkSizes == {0, 1, MaxKeys, MaxKeys + 1, MaxPages * MaxKeys + 1}

BulkListSizes == {-1, 0, 1, MaxKeys - 1, MaxKeys, MaxKeys + 1, MaxPages * MaxKeys, MaxPages * MaxKeys + 1}

\* the objects "d/0001" .. "d/<m>" and "e", in key order
BulkStore(prefix, m) ==
    [i \in 1..m |-> [Key |-> addPrefix(prefix, BulkDir \o Pad4(i)), Data |-> <<>>]]
    \o <<[Key |-> addPrefix(prefix, <<101>>), Data |-> <<>>]>>

InitList ==
    /\ handle \in {NewHandle(p) : p \in Prefixes}
    /\ sdk = "GetResponse"
    /\ bucket = TRUE
    /\ store \in {BulkStore(handle.prefix, m) : m \in BulkSizes}
    /\ written = Keys(store)
    /\ ctor = [i \in Instances |-> NoCtor]
    /\ call = [c \in Callers |-> NoCall]
    /\ codec = NoCodec

NextList ==
    \/ \E n \in BulkListSizes : ListCall("c1", BulkDir, n)
    \/ ListPage("c1")
    \/ ListReturn("c1")

SpecList == InitList /\ [][NextList]_vars

\* SpecList with a loop that keeps running: the provider answers every page
\* request (with a page or an error) and the caller's goroutine is scheduled.
SpecListFair == SpecList /\ WF_vars(ListPage("c1") \/ ListReturn("c1"))

\* The PathCodec applied to every prefix and path of at most MaxPathLen bytes.
InitCodec ==
    /\ handle = NilHandle
    /\ sdk = "GetResponse"
    /\ bucket = TRUE
    /\ store = <<>>
    /\ written = {}
    /\ ctor = [i \in Instances |-> NoCtor]
    /\ call = [c \in Callers |-> NoCall]
    /\ codec \in {[NoCodec EXCEPT !.pc = "in", !.prefix = p, !.path = k] :
                    p \in CodecStrings(MaxPathLen), k \in CodecStrings(MaxPathLen)}

NextCodec == CodecAdd \/ CodecRemove

SpecCodec == InitCodec /\ [][NextCodec]_vars

\* Two callers sharing one adapter, on a bucket holding "p/a" and "p/b".
PairCallers == {"c1", "c2"}

\* "a" and "b"
PairPaths == {<<97>>, <<98>>}

PairPayloads == {<<1>>}

\* a budget of more than one page
PairListSizes == {MaxKeys + 1}

InitPair ==
    /\ handle = NewHandle(<<112>>)
    /\ sdk \in Methods
    /\ bucket = TRUE
    /\ store = <<[Key |-> addPrefix(<<112>>, <<97>>), Data |-> <<1>>],
                 [Key |-> addPrefix(<<112>>, <<98>>), Data |-> <<1>>]>>
    /\ written = Keys(store)
    /\ ctor = [i \in Instances |-> NoCtor]
    /\ call = [c \in PairCallers |-> NoCall]
    /\ codec = NoCodec

NextPair ==
    \E c \in PairCallers :
        \/ \E path \in PairPaths : Lock(c, path)
        \/ \E path \in PairPaths : Unlock(c, path)
        \/ \E n \in PairListSizes : ListCall(c, <<>>, n)
        \/ ListPage(c)
        \/ ListReturn(c)
        \/ \E data \in PairPayloads : Put(c, <<97>>, data)
        \/ \E data \in PairPayloads : PutReader(c, <<97>>, data)
        \/ Delete(c, <<97>>)
        \/ Get(c, <<97>>)
        \/ ReadAll(c)
        \/ Close(c)

SpecPair == InitPair /\ [][NextPair]_vars

---------------------------------------------------------------------------
(* Properties.                                                             *)

\* a List call that returned, no request of which failed, on a bucket that
\* nobody wrote to since the call began
Listed(me) == me.op = "List" /\ me.pc = "ready" /\ me.perr = NoErr /\ me.quiet

\* the result is the first min(n, M) of the M keys under the prefix, in the
\* provider's order, as logical paths
FirstKeys(me) ==
    LET cand == Candidates(store, me.prefix, <<>>)
    IN  /\ me.err = NoErr
        /\ Len(me.items) = Min(me.n, Len(cand))
        /\ \A i \in 1..Len(me.items) :
              addPrefix(handle.prefix, me.items[i]) = cand[i].Key

\* C1, as stated: against a provider whose pages hold at most
\* min(requested, 1000) keys, flagged truncated when keys remain, List(prefix, N)
\* with N >= 1 returns exactly the first min(N, M) keys in provider order.
C1_AnyPages ==
    \A c \in Callers :
        (Listed(call[c]) /\ call[c].n >= 1 /\ call[c].err = NoErr) => FirstKeys(call[c])

\* C1, amended: the same, against a provider that fills every page, with
\* exactly min(requested, 1000, keys remaining) keys.
C1_FullPages ==
    \A c \in Callers :
        (Listed(call[c]) /\ call[c].n >= 1 /\ call[c].full) => FirstKeys(call[c])

\* a List of more than one page returned MaxKeys + 1 keys from full pages
C1_Witness ==
    \E c \in Callers :
        /\ Listed(call[c]) /\ call[c].full
        /\ Len(call[c].reqs) = 2
        /\ Len(call[c].items) = MaxKeys + 1

\* C2: every page request asks for exactly min(remaining budget, 1000) keys,
\* never more than 1000 and never fewer than 1; the remaining budget is the
\* caller's maxSize less the sizes of the requests made so far.
C2_RequestSize ==
    \A c \in Callers : \A j \in 1..Len(call[c].reqs) :
        LET r == call[c].reqs[j]
        IN  /\ r.max = Min(r.budget, MaxKeys)
            /\ r.max >= 1 /\ r.max <= MaxKeys
            /\ r.budget = IF j = 1 THEN call[c].n
                          ELSE call[c].reqs[j - 1].budget - call[c].reqs[j - 1].max

\* a budget above the ceiling: a request of 1000 keys, then one of the rest
C2_Witness ==
    \E c \in Callers :
        /\ Len(call[c].reqs) = 2
        /\ call[c].reqs[1].budget > MaxKeys /\ call[c].reqs[1].max = MaxKeys
        /\ call[c].reqs[2].max = call[c].n - MaxKeys

\* C3, as stated: constructing the adapter against a bucket that exists
\* never issues a PutBucket request.
C3_ExistingBucketNeverCreated ==
    \A i \in Instances : ctor[i].existed => ctor[i].puts = 0

\* C3, amended: constructing the adapter against a bucket that exists issues
\* no PutBucket request when the probe succeeds, and returns the handle; a
\* probe that fails, for whatever reason, is followed by a PutBucket request.
C3_ProbeOkNeverCreates ==
    \A i \in Instances :
        /\ (ctor[i].existed /\ ctor[i].probe = "ok") =>
              (ctor[i].puts = 0 /\ ctor[i].pc = "ready" /\ ~ctor[i].handle.isNil)
        /\ (ctor[i].probe = "err" /\ ctor[i].pc # "create") => ctor[i].puts = 1

\* an instance probed an existing bucket, the probe succeeded, it is ready
C3_Witness ==
    \E i \in Instances :
        ctor[i].existed /\ ctor[i].probe = "ok" /\ ctor[i].pc = "ready"

RECURSIVE TotalPuts(_)
TotalPuts(S) ==
    IF S = {} THEN 0
    ELSE LET i == CHOOSE x \in S : TRUE IN ctor[i].puts + TotalPuts(S \ {i})

\* C4, as stated: however the probes and creations of concurrent instances
\* interleave, at most one PutBucket request is issued in total, and none
\* while the bucket exists or another creation is in progress.
C4_CreatedOnce ==
    /\ TotalPuts(Instances) <= 1
    /\ \A i \in Instances : ctor[i].puts > 0 => (~ctor[i].atPut /\ ~ctor[i].busy)

\* C4, amended: each instance issues at most one PutBucket request, and only
\* after its own probe failed; so concurrent instances issue at most one
\* request each, as many in total as probes failed.
C4_OncePerFailedProbe ==
    /\ \A i \in Instances :
          /\ ctor[i].puts <= 1
          /\ ctor[i].puts = 1 => ctor[i].probe = "err"
    /\ TotalPuts(Instances) <= Cardinality({i \in Instances : ctor[i].probe = "err"})

\* two instances have both sent PutBucket, the second while the first's
\* creation was in progress
C4_Witness ==
    \E i, j \in Instances :
        i # j /\ ctor[i].puts = 1 /\ ctor[j].puts = 1 /\ ctor[j].busy

\* a Get of a key the bucket held, answered by the provider with the object
\* as stored and its digest in the Etag
Fetched(me) ==
    /\ me.op = "Get" /\ me.held /\ me.perr = NoErr /\ ~me.resp.isNil
    /\ me.form \in {"quoted", "bare"} /\ me.wire = me.stored

\* C5: Put(K, P) then Get(K), with no write or delete of K between, returns a
\* stream that, read to its end, yields P and no checksum error.
C5_RoundTrip ==
    \A c \in Callers :
        Fetched(call[c]) =>
            /\ ~call[c].stream.isNil
            /\ call[c].drained => (call[c].read = call[c].stored /\ call[c].err = NoErr)

\* C6: Get of a key that was never written, or was written and then deleted,
\* to which the provider answers that the key does not exist, returns
\* strata.ErrNotFound and no stream.
C6_NotFound ==
    \A c \in Callers :
        (call[c].op = "Get" /\ ~call[c].held /\ call[c].perr = NoSuchKey) =>
            /\ call[c].err.type = "strata.ErrNotFound"
            /\ call[c].stream.isNil
            /\ call[c].pc = "ready"

\* a Get of a key that was put and then deleted returned ErrNotFound
C6_Witness ==
    \E c \in Callers :
        /\ call[c].op = "Get" /\ ~call[c].held
        /\ addPrefix(handle.prefix, call[c].path) \in written
        /\ call[c].err.type = "strata.ErrNotFound"

\* C7: when the bytes delivered differ from the content the Etag's digest
\* was computed over, reading Get's stream to its end ends in a checksum
\* mismatch error, never in a clean end-of-data.
C7_MismatchDetected ==
    \A c \in Callers :
        (call[c].op = "Get" /\ call[c].drained
            /\ call[c].stream.Body # call[c].stored) =>
        call[c].err = ChecksumMismatch

\* an object's body was altered on the way and the reader reported it
C7_Witness ==
    \E c \in Callers :
        /\ call[c].op = "Get" /\ call[c].drained /\ sdk = "GetResponse"
        /\ call[c].wire # call[c].stored /\ call[c].read = call[c].wire
        /\ call[c].err = ChecksumMismatch

\* List("snapshots/db1/", 10) returned, from full pages, on a bucket that
\* holds "snapshots/db1/000001.sst" and no other key
ExampleListed(me) ==
    /\ Listed(me) /\ me.full /\ me.path = ExampleDir /\ me.n = 10
    /\ Keys(store) = {addPrefix(handle.prefix, ExamplePath)}

\* C8, as stated: Put("snapshots/db1/000001.sst", data), then
\* List("snapshots/db1/", 10), returns ["000001.sst"].
C8_ExampleFileName ==
    \A c \in Callers : ExampleListed(call[c]) => call[c].items = <<ExampleFile>>

\* C8, amended: it returns ["snapshots/db1/000001.sst"], the whole logical path.
C8_ExampleLogicalPath ==
    \A c \in Callers :
        ExampleListed(call[c]) => (call[c].items = <<ExamplePath>> /\ call[c].err = NoErr)

C8_Witness == \E c \in Callers : ExampleListed(call[c])

\* C9: for every configured prefix, the empty one included, and every logical
\* path K, removePrefix(addPrefix(K)) = K.
C9_CodecRoundTrip == codec.pc = "out" => codec.out = codec.path

\* the codec ran with the empty prefix on a path that begins with "/"
C9_Witness ==
    /\ codec.pc = "out" /\ codec.prefix = <<>>
    /\ codec.path # <<>> /\ codec.path[1] = Slash

\* C10: nothing handed back to the caller is a provider key: the path in
\* Get's not-found error is the logical path asked for, and List's items do
\* not carry the configured prefix.
C10_NoProviderKey ==
    \A c \in Callers :
        /\ (call[c].op = "Get" /\ call[c].err.type = "strata.ErrNotFound") =>
              call[c].err.path = call[c].path
        /\ (call[c].op = "List" /\ call[c].pc = "ready") =>
              \A i \in 1..Len(call[c].items) :
                  ~HasPrefix(call[c].items[i], handle.prefix \o <<Slash>>)

\* C11: NewOSSStorage issues exactly one probe, a list for at most one key;
\* it asks for the bucket to be created at most once, and only after the probe
\* failed; it returns an error and no adapter if and only if the probe and
\* the creation both failed, and a ready adapter and no error otherwise, the
\* failed probe's error not being returned after a successful creation.
C11_ProvisioningOutcome ==
    \A i \in Instances :
        LET me == ctor[i]
            done == me.pc \in {"ready", "failed"}
            bothFail == me.probe = "err" /\ me.created = "err"
        IN  /\ me.probes <= 1 /\ me.puts <= 1
            /\ me.probes = 1 => me.probeMax = 1
            /\ me.puts = 1 => me.probes = 1 /\ me.probe = "err"
            /\ done => /\ me.probes = 1
                       /\ me.pc = "failed" <=> bothFail
                       /\ bothFail => me.handle.isNil /\ me.err # NoErr
                       /\ ~bothFail => ~me.handle.isNil /\ me.err = NoErr

\* a construction whose probe failed and whose creation succeeded, next to
\* one whose probe and creation both failed
C11_Witness ==
    \E i, j \in Instances :
        /\ ctor[i].pc = "ready" /\ ctor[i].perr # NoErr /\ ctor[i].created = "ok"
        /\ ctor[j].pc = "failed" /\ ctor[j].created = "err"

\* C12: Lock and Unlock are inert: whatever the state and the order of the
\* calls, each returns nil at once, issues no provider request, and leaves
\* the stored objects, the bucket and the handle as they were.
C12_LockInert ==
    [][\A c \in DOMAIN call :
          (call'[c] # call[c] /\ call'[c].op \in {"Lock", "Unlock"}) =>
              /\ call'[c].pc = "ready" /\ call'[c].err = NoErr
              /\ call'[c].sent = <<>>
              /\ store' = store /\ bucket' = bucket /\ handle' = handle]_vars

\* two callers hold a successful Lock of the same path at the same time
C12_Witness ==
    /\ call["c1"].op = "Lock" /\ call["c1"].err = NoErr
    /\ "c2" \in DOMAIN call
    /\ call["c2"].op = "Lock" /\ call["c2"].err = NoErr
    /\ call["c2"].path = call["c1"].path

\* C13: every Get that returns a stream has issued a HEAD request followed
\* by a GET of the object body, and the stream carries the body that the GET
\* returned, not the body of the HEAD response.
C13_HeadThenGet ==
    \A c \in DOMAIN call :
        (call[c].op = "Get" /\ ~call[c].stream.isNil) =>
            /\ call[c].sent = <<"HEAD", "GET">>
            /\ call[c].stream.Body = call[c].wire

\* the page requests of a List call keep the order of the loop: the first
\* carries the empty marker, a request follows only a page that was received
\* without error and reported truncation, and a page without the truncation
\* flag ends the call
MarkerOrder(me) ==
    /\ Len(me.reqs) >= 1 => me.reqs[1].marker = <<>>
    /\ \A j \in 2..Len(me.reqs) :
           me.reqs[j - 1].err = NoErr /\ me.reqs[j - 1].trunc
    /\ (me.pc = "list" /\ Len(me.reqs) >= 1) =>
           me.reqs[Len(me.reqs)].err = NoErr /\ me.reqs[Len(me.reqs)].trunc

\* C14 as stated: within one List call the first page request carries an
\* empty marker, each later request follows a page that reported truncation
\* and carries as marker the provider key of the last item of that previous
\* page, and a page without the truncation flag ends the call.
C14_MarkerOfPreviousPage ==
    \A c \in DOMAIN call :
        call[c].op = "List" =>
            /\ MarkerOrder(call[c])
            /\ \A j \in 2..Len(call[c].reqs) :
                   LET prev == call[c].reqs[j - 1]
                   IN  /\ prev.keys # <<>>
                       /\ call[c].reqs[j].marker = prev.keys[Len(prev.keys)]

\* C14, amended: the marker of a later request is the provider key of the
\* last item of the previous page when that page holds items, and the marker
\* of the previous request when that page is empty (it is then the last item
\* received so far in the call).
C14_MarkerOfLastItemSoFar ==
    \A c \in DOMAIN call :
        call[c].op = "List" =>
            /\ MarkerOrder(call[c])
            /\ \A j \in 2..Len(call[c].reqs) :
                   LET prev == call[c].reqs[j - 1]
                   IN  call[c].reqs[j].marker =
                           IF prev.keys # <<>> THEN prev.keys[Len(prev.keys)]
                           ELSE prev.marker

\* a call of three requests whose second page was empty and truncated, ended
\* by a page without the truncation flag
C14_Witness ==
    \E c \in DOMAIN call :
        /\ call[c].op = "List" /\ call[c].pc = "ready" /\ call[c].err = NoErr
        /\ Len(call[c].reqs) = 3
        /\ Len(call[c].reqs[1].keys) > 1
        /\ call[c].reqs[2].keys = <<>>
        /\ call[c].reqs[3].marker = call[c].reqs[2].marker
        /\ ~call[c].reqs[3].trunc

\* the least number of pages of `size` keys that hold n keys
CeilDiv(n, size) == (n + size - 1) \div size

\* the budget of a List call after its requests: each answered request took
\* its request size off, whatever the number of keys in its page
BudgetSpent(me) ==
    /\ Len(me.reqs) = 0 => me.maxSize = me.n
    /\ Len(me.reqs) > 0 =>
           LET r == me.reqs[Len(me.reqs)]
           IN  me.maxSize = IF r.err = NoErr THEN r.budget - r.max ELSE r.budget
    /\ \A j \in 1..Len(me.reqs) :
           me.reqs[j].budget = me.n - (j - 1) * MaxKeys

\* C15: the budget of List(prefix, N) goes down by the request size after
\* each page, never by the number of keys returned; whatever the provider
\* answers, the call issues at most ceil(N / 1000) page requests and ends;
\* for N <= 0 it issues none and returns an empty sequence.
C15_BudgetAndTermination ==
    /\ [](\A c \in DOMAIN call :
             call[c].op = "List" =>
                 /\ BudgetSpent(call[c])
                 /\ call[c].n > 0 => Len(call[c].reqs) <= CeilDiv(call[c].n, MaxKeys)
                 /\ call[c].n <= 0 =>
                        /\ call[c].reqs = <<>> /\ call[c].sent = <<>>
                        /\ call[c].items = <<>> /\ call[c].err = NoErr)
    /\ \A c \in Callers : (call[c].pc = "list") ~> (call[c].pc = "ready")

\* a call whose pages all reported truncation and held fewer keys than were
\* asked for, ended by its budget after ceil(N / 1000) requests
C15_Witness ==
    \E c \in DOMAIN call :
        /\ call[c].op = "List" /\ call[c].pc = "ready" /\ call[c].err = NoErr
        /\ call[c].n = MaxPages * MaxKeys + 1
        /\ Len(call[c].reqs) = MaxPages + 1
        /\ \A j \in 1..Len(call[c].reqs) :
               /\ call[c].reqs[j].trunc
               /\ Len(call[c].reqs[j].keys) < call[c].reqs[j].max

\* C16: when a page request of a List call fails, the first or a later one,
\* List issues no further request, returns the provider's error as it is,
\* and returns no items, those of the earlier pages included.
C16_NoRetryNoPartial ==
    \A c \in DOMAIN call :
        call[c].op = "List" =>
            \A j \in 1..Len(call[c].reqs) :
                call[c].reqs[j].err # NoErr =>
                    /\ j = Len(call[c].reqs) /\ Len(call[c].sent) = j
                    /\ call[c].pc = "ready"
                    /\ call[c].err = call[c].reqs[j].err
                    /\ call[c].items = <<>>

\* the second page request failed after a first page that held items
C16_Witness ==
    \E c \in DOMAIN call :
        /\ call[c].op = "List" /\ call[c].pc = "ready"
        /\ Len(call[c].reqs) = 2
        /\ call[c].reqs[1].keys # <<>>
        /\ call[c].reqs[2].err = NoSuchBucket
        /\ call[c].err = NoSuchBucket

\* The loop of List run by itself on the answers the provider gave to its
\* page requests, from the state st = [pc, marker, maxSize, items, err, asked]
\* (asked: the marker and size of each request it issues).
RECURSIVE RunAlone(_, _, _)
RunAlone(st, prefix, answers) ==
    IF answers = <<>> \/ st.pc # "list" \/ st.maxSize <= 0 THEN st
    ELSE LET a == Head(answers)
             maxReqSize == MaxReqSize(st.maxSize)
             asked == Append(st.asked, [marker |-> st.marker, max |-> maxReqSize])
         IN  IF a.err # NoErr
             THEN [st EXCEPT !.pc = "ready", !.items = <<>>, !.err = a.err,
                             !.asked = asked]
             ELSE LET items == AppendItems(prefix, st.items, a.keys)
                      seen == [st EXCEPT !.maxSize = Remaining(st.maxSize, maxReqSize),
                                         !.items = items, !.asked = asked]
                  IN  IF ~a.trunc THEN [seen EXCEPT !.pc = "ready"]
                      ELSE IF items = <<>>
                           THEN [seen EXCEPT !.pc = "ready",
                                             !.err = Panic("index out of range")]
                           ELSE RunAlone([seen EXCEPT
                                             !.marker = NextMarker(prefix, items)],
                                         prefix, Tail(answers))

\* a List call in progress or returned is where the loop run alone on the
\* same answers is, and has issued the same requests
ListIsolated(me) ==
    LET alone == RunAlone([pc |-> "list", marker |-> <<>>, maxSize |-> me.n,
                           items |-> <<>>, err |-> NoErr, asked |-> <<>>],
                          handle.prefix, me.reqs)
    IN  /\ me.prefix = addPrefix(handle.prefix, me.path)
        /\ alone.asked = [j \in 1..Len(me.reqs) |->
                             [marker |-> me.reqs[j].marker, max |-> me.reqs[j].max]]
        /\ alone.marker = me.marker /\ alone.maxSize = me.maxSize
        /\ alone.items = me.items /\ alone.err = me.err
        /\ alone.pc # me.pc => alone.maxSize <= 0 /\ me.pc = "ready"

\* C17: no operation changes a field of the storage handle, and the marker,
\* budget and result of a List call are its own: with two callers on one
\* handle, in every interleaving, each List call issues the requests and
\* reaches the result of the loop run alone on the provider's answers to it.
C17_HandleFixedCallsIsolated ==
    /\ [][handle' = handle]_vars
    /\ [](\A c \in DOMAIN call : call[c].op = "List" => ListIsolated(call[c]))

\* two List calls in progress on the one handle, at different markers, one
\* of them after its second page request
C17_Witness ==
    \E c, d \in DOMAIN call :
        /\ c # d
        /\ call[c].pc = "list" /\ call[d].pc = "list"
        /\ Len(call[c].reqs) = 2 /\ Len(call[d].reqs) = 1
        /\ call[d].marker # call[c].reqs[2].marker
        /\ ~handle.isNil

\* C18: List never faults on a page of the provider: whatever the page, a
\* page that reports truncation and holds no entries included, the call ends
\* by returning a result or an error, and the marker update does not read
\* the last element of an empty result.
C18_NoFaultOnEmptyPage ==
    \A c \in DOMAIN call :
        call[c].op = "List" => call[c].err.type # "panic"

\* C19: Get yields exactly one of a stream and a non-nil error whatever the
\* provider answers; when the provider returns no response and no error, Get
\* returns a non-nil error without inspecting the absent one.
C19_StreamOrError ==
    \A c \in DOMAIN call :
        (call[c].op = "Get" /\ call[c].sent # <<>> /\ ~call[c].drained) =>
            /\ call[c].stream.isNil <=> call[c].err # NoErr
            /\ call[c].err.type # "panic"

====
